---- MODULE Spec2Model ----
(***************************************************************************)
(* Model of history.py: the chat history export script.                    *)
(*                                                                         *)
(* main() resolves a chat by name (find_chat_by_name), fetches its history *)
(* (get_channel_history), sorts it by date, truncates it to args.limit,    *)
(* turns every message into a flat record and writes the records to a      *)
(* file.  Every remote call is wrapped in its own `async with client:`.    *)
(*                                                                         *)
(* The remote service is the environment: the dialogs it lists and the     *)
(* messages it returns are chosen in Init and never change during a run.   *)
(* A remote call may also fail (an exception raised by the awaited call).  *)
(* Fields of a message that are copied to the record without a decision    *)
(* taken on them (voice flag, text, views, reply_to_msg_id) are left out.  *)
(***************************************************************************)
EXTENDS Integers, Sequences, FiniteSets, TLC

(* ---- bounds of the model ---- *)
MaxChats == 3
MaxHist == 3
MaxLimit == 3

VARIABLES
  args,           \* parsed command line: chat_name, limit
  credsValid,     \* whether api_id / api_hash let the client start
  dialogs,        \* remote: the chats the account can see, in listing order
  remoteHistory,  \* remote: what get_messages returns for the history fetch
  pc,             \* position of main() and of the coroutine it awaits
  checkCoro,      \* the coroutine object made by check_api_connection()
  session,        \* the client connection: "closed" or "open"
  acquired,       \* number of times `async with client` was entered
  released,       \* number of times `async with client` was left
  remoteCalls,    \* log of the remote requests issued, in order
  presented,      \* ids of the candidates printed, in order
  inputRequests,  \* number of times input() was called
  chats,          \* find_chat_by_name: chats
  found_chats,    \* find_chat_by_name: found_chats
  i,              \* find_chat_by_name: loop index of the preview loop (0-based)
  choice,         \* find_chat_by_name: choice, <<>> before input() returned
  chat,           \* the chat returned by find_chat_by_name
  history,        \* main: history
  messages,       \* main: messages
  message_number, \* main: loop index over history[:args.limit] (0-based)
  sender_type,    \* main: sender_type (Unbound before its first assignment)
  sender_name,    \* main: sender_name (UnboundName before its first assignment)
  outFile,        \* content of args.file once written (writes > 0)
  writes,         \* number of times args.file was written
  error,          \* the exception that ended the run, "none" otherwise
  failedIn,       \* the function in which that exception was raised
  failedAt        \* the pc at which it was raised

env  == <<args, credsValid, dialogs, remoteHistory>>
sess == <<session, acquired, released>>
io   == <<remoteCalls, presented, inputRequests>>
res  == <<chats, found_chats, i, choice, chat>>
loc  == <<history, messages, message_number, sender_type, sender_name>>
out  == <<outFile, writes>>
err  == <<error, failedIn, failedAt>>
vars == <<env, pc, checkCoro, sess, io, res, loc, out, err>>

(* ---- values ---- *)
\* a str-or-None attribute that is None or '' (both are false in a condition)
None == <<>>
Truthy(s) == s # None

\* a local variable that has not been assigned yet
Unbound == "unbound"
UnboundName == <<"unbound">>
NoChat == [id |-> 0, name |-> <<>>]

\* chat display names and name queries, as sequences of characters
Names == {<<"a">>, <<"b">>, <<"a", "b">>, <<"b", "a">>}
Queries == {<<"a">>, <<"a", "b">>}

\* a dialog list: the remote numbers the chats, ids are distinct
DialogsOver(N, n) ==
  UNION {{[k \in 1..len |-> [id |-> k, name |-> f[k]]] : f \in [1..len -> N]}
         : len \in 0..n}

\* message dates, in seconds after 1970-01-01 00:00:00
Dates == {0, 75}

\* message.sender: a telethon User, a telethon Channel, or anything else
\* (None, or an entity of another type, which has no username attribute)
User(first, last) ==
  [kind |-> "User", first_name |-> first, last_name |-> last, title |-> None]
Channel(t) ==
  [kind |-> "Channel", first_name |-> None, last_name |-> None, title |-> t]
Other == [kind |-> "Other", first_name |-> None, last_name |-> None, title |-> None]
Senders ==
  {User(f, l) : f \in {None, <<"F">>}, l \in {None, <<"L">>}}
    \cup {Channel(<<"T">>), Other}

\* message lists the remote may return: ids distinct, dates in any order
HistoriesOver(D, S, n) ==
  UNION {{[k \in 1..len |-> [id |-> k, date |-> f[k][1], sender |-> f[k][2]]]
            : f \in [1..len -> D \X S]}
         : len \in 0..n}

(* ---- Python and library operations, computed as the code computes them ---- *)

\* `q in s` on strings: q occurs in s as a contiguous substring
Contains(q, s) ==
  \E o \in 0..(Len(s) - Len(q)) : SubSeq(s, o + 1, o + Len(q)) = q

\* list[k] with Python's index rules (k is 0-based, negative k counts from the end)
PyIndexOk(list, k) == -Len(list) <= k /\ k < Len(list)
PyIndex(list, k) == IF k >= 0 THEN list[k + 1] ELSE list[Len(list) + k + 1]

\* list[:n] with Python's slice rules
PySliceTo(list, n) ==
  LET stop == IF n >= 0 THEN (IF n < Len(list) THEN n ELSE Len(list))
              ELSE (IF Len(list) + n > 0 THEN Len(list) + n ELSE 0)
  IN  SubSeq(list, 1, stop)

\* the list comprehension of lines 139-142: chats whose name contains chat_name
RECURSIVE FilterByName(_, _)
FilterByName(cs, q) ==
  IF cs = <<>> THEN <<>>
  ELSE IF Contains(q, Head(cs).name)
       THEN <<Head(cs)>> \o FilterByName(Tail(cs), q)
       ELSE FilterByName(Tail(cs), q)

\* faulty variant of SortedByDate: the list is left in the order it was fetched in
Unsorted(h) == h

\* sorted(history, key=lambda x: x.date): a stable sort, ascending
RECURSIVE InsertByDate(_, _)
InsertByDate(m, sorted) ==
  IF sorted = <<>> THEN <<m>>
  ELSE IF Head(sorted).date <= m.date
       THEN <<Head(sorted)>> \o InsertByDate(m, Tail(sorted))
       ELSE <<m>> \o sorted
RECURSIVE SortedByDate(_)
SortedByDate(h) ==
  IF h = <<>> THEN <<>>
  ELSE InsertByDate(h[Len(h)], SortedByDate(SubSeq(h, 1, Len(h) - 1)))

\* date.strftime('%Y-%m-%d %H:%M:%S'): zero-padded decimal fields, as the
\* sequence of the digits of the string (the separators are fixed)
Pad2(x) == <<x \div 10, x % 10>>
Strftime(d) ==
  <<1, 9, 7, 0>> \o Pad2(1) \o Pad2(1 + d \div 86400)
    \o Pad2((d % 86400) \div 3600) \o Pad2((d % 3600) \div 60) \o Pad2(d % 60)

(* ---- initial states ---- *)

InitProgram ==
  /\ pc = "start"
  /\ checkCoro = "none"
  /\ session = "closed" /\ acquired = 0 /\ released = 0
  /\ remoteCalls = <<>> /\ presented = <<>> /\ inputRequests = 0
  /\ chats = <<>> /\ found_chats = <<>> /\ i = 0 /\ choice = <<>> /\ chat = NoChat
  /\ history = <<>> /\ messages = <<>> /\ message_number = 0
  /\ sender_type = Unbound /\ sender_name = UnboundName
  /\ outFile = <<>> /\ writes = 0
  /\ error = "none" /\ failedIn = "none" /\ failedAt = "none"

\* every dialog list and query, with a history of at most one message
InitChats ==
  /\ args \in [chat_name : Queries, limit : {MaxLimit}]
  /\ credsValid \in BOOLEAN
  /\ dialogs \in DialogsOver(Names, MaxChats)
  /\ remoteHistory \in HistoriesOver({0}, Senders, 1)

\* every history and limit, with a dialog list of at most one chat
InitHistories ==
  /\ args \in [chat_name : {<<"a">>}, limit : 0..MaxLimit]
  /\ credsValid = TRUE
  /\ dialogs \in DialogsOver({<<"b", "a">>}, 1)
  /\ remoteHistory \in
       HistoriesOver(Dates, {User(<<"F">>, <<"L">>), User(None, None),
                             Channel(<<"T">>), Other}, MaxHist)

Init == InitProgram /\ (InitChats \/ InitHistories)

(* ---- the client context manager ---- *)

\* an exception leaves the coroutine and main(): the run ends with a traceback
Raise(fn, e) ==
  /\ pc' = "failed"
  /\ error' = e /\ failedIn' = fn /\ failedAt' = pc

\* `async with client:` entered: client.start() connects and signs in
EnterClient(fn, next) ==
  IF credsValid
  THEN /\ session' = "open" /\ acquired' = acquired + 1
       /\ UNCHANGED <<released, err>>
       /\ pc' = next
  ELSE /\ Raise(fn, "ClientStartError")
       /\ UNCHANGED sess

\* faulty variant of ExitClient: the client is never disconnected
ExitClientLeavesOpen == UNCHANGED sess

\* `async with client:` left, normally or by an exception: client.disconnect()
ExitClient == session' = "closed" /\ released' = released + 1 /\ UNCHANGED acquired

(* ---- main(), line 175 ---- *)

\* check_api_connection() without await: the coroutine object is created and
\* dropped, its body (lines 103-109) never runs
CallCheckApiConnection ==
  /\ pc = "start"
  /\ checkCoro' = "created"
  /\ pc' = "list_enter"
  /\ UNCHANGED <<env, sess, io, res, loc, out, err>>

(* ---- find_chat_by_name ---- *)

ListEnter ==
  /\ pc = "list_enter"
  /\ EnterClient("list_all_chats", "list_call")
  /\ UNCHANGED <<env, checkCoro, io, res, loc, out>>

\* client.get_dialogs() returns the dialogs or raises
ListCall ==
  /\ pc = "list_call"
  /\ remoteCalls' = Append(remoteCalls, "get_dialogs")
  /\ ExitClient
  /\ \E ok \in BOOLEAN :
       IF ok
       THEN /\ chats' = dialogs /\ pc' = "filter" /\ UNCHANGED err
       ELSE /\ Raise("list_all_chats", "RemoteError") /\ UNCHANGED chats
  /\ UNCHANGED <<env, checkCoro, presented, inputRequests,
                 found_chats, i, choice, chat, loc, out>>

\* faulty variant of FilterChats: line 143 tests len(found_chats) >= 1
FilterChatsAlwaysAsks ==
  /\ pc = "filter"
  /\ found_chats' = FilterByName(chats, args.chat_name)
  /\ i' = 0
  /\ pc' = IF Len(found_chats') >= 1 THEN "preview_enter" ELSE "pick_only"
  /\ UNCHANGED <<env, checkCoro, sess, io, chats, choice, chat, loc, out, err>>

\* lines 139-143 and 151
FilterChats ==
  /\ pc = "filter"
  /\ found_chats' = FilterByName(chats, args.chat_name)
  /\ i' = 0
  /\ pc' = IF Len(found_chats') > 1 THEN "preview_enter" ELSE "pick_only"
  /\ UNCHANGED <<env, checkCoro, sess, io, chats, choice, chat, loc, out, err>>

\* line 146: get_messages_by_chat_id(chat.id, limit=1) for candidate i
PreviewEnter ==
  /\ pc = "preview_enter"
  /\ EnterClient("get_messages_by_chat_id", "preview_call")
  /\ UNCHANGED <<env, checkCoro, io, res, loc, out>>

\* lines 146-148: the last message comes back (or the call raises) and the
\* candidate is printed with its ordinal i+1
PreviewCall ==
  /\ pc = "preview_call"
  /\ remoteCalls' = Append(remoteCalls, "get_messages_preview")
  /\ ExitClient
  /\ \E ok \in BOOLEAN :
       IF ok
       THEN /\ presented' = Append(presented, found_chats[i + 1].id)
            /\ i' = i + 1
            /\ pc' = IF i + 1 < Len(found_chats) THEN "preview_enter" ELSE "input"
            /\ UNCHANGED err
       ELSE /\ Raise("get_messages_by_chat_id", "RemoteError")
            /\ UNCHANGED <<presented, i>>
  /\ UNCHANGED <<env, checkCoro, inputRequests, chats, found_chats, choice, chat,
                 loc, out>>

\* what input() may return: an integer, in or out of range
Choices == (0 - MaxChats)..(MaxChats + 1)

\* faulty variant of ChooseChat: line 150 reads found_chats[choice]
ChooseChatZeroBased ==
  /\ pc = "input"
  /\ inputRequests' = inputRequests + 1
  /\ \E c \in Choices :
       /\ choice' = <<c>>
       /\ IF PyIndexOk(found_chats, c)
          THEN /\ chat' = PyIndex(found_chats, c)
               /\ pc' = "return_chat" /\ UNCHANGED err
          ELSE /\ Raise("find_chat_by_name", "IndexError") /\ UNCHANGED chat
  /\ UNCHANGED <<env, checkCoro, sess, remoteCalls, presented, chats, found_chats, i,
                 loc, out>>

\* lines 149-150: choice = int(input(...)); chat = found_chats[choice - 1]
ChooseChat ==
  /\ pc = "input"
  /\ inputRequests' = inputRequests + 1
  /\ \E c \in Choices :
       /\ choice' = <<c>>
       /\ IF PyIndexOk(found_chats, c - 1)
          THEN /\ chat' = PyIndex(found_chats, c - 1)
               /\ pc' = "return_chat" /\ UNCHANGED err
          ELSE /\ Raise("find_chat_by_name", "IndexError") /\ UNCHANGED chat
  /\ UNCHANGED <<env, checkCoro, sess, remoteCalls, presented, chats, found_chats, i,
                 loc, out>>

\* faulty variant of PickOnly: an empty candidate list yields no chat instead of raising
PickOnlyOrNone ==
  /\ pc = "pick_only"
  /\ chat' = IF found_chats # <<>> THEN found_chats[1] ELSE NoChat
  /\ pc' = "return_chat"
  /\ UNCHANGED <<env, checkCoro, sess, io, chats, found_chats, i, choice, loc, out, err>>

\* line 152: chat = found_chats[0]
PickOnly ==
  /\ pc = "pick_only"
  /\ IF PyIndexOk(found_chats, 0)
     THEN /\ chat' = PyIndex(found_chats, 0)
          /\ pc' = "return_chat" /\ UNCHANGED err
     ELSE /\ Raise("find_chat_by_name", "IndexError") /\ UNCHANGED chat
  /\ UNCHANGED <<env, checkCoro, sess, io, chats, found_chats, i, choice, loc, out>>

\* lines 153, 178-179: the coroutine returns chat, its locals are gone
ReturnChat ==
  /\ pc = "return_chat"
  /\ chats' = <<>> /\ found_chats' = <<>> /\ i' = 0 /\ choice' = <<>>
  /\ pc' = "fetch_enter"
  /\ UNCHANGED <<env, checkCoro, sess, io, chat, loc, out, err>>

(* ---- get_channel_history ---- *)

FetchEnter ==
  /\ pc = "fetch_enter"
  /\ EnterClient("get_channel_history", "fetch_call")
  /\ UNCHANGED <<env, checkCoro, io, res, loc, out>>

\* lines 117-129: client.get_messages(channel_id, limit, offset_date, reverse)
\* returns the messages, or an exception leaves the `async with` block (from
\* the request, or from strptime on a malformed --offset_date); nothing in the
\* script depends on the service having honoured limit, offset_date or reverse
FetchCall ==
  /\ pc = "fetch_call"
  /\ remoteCalls' = Append(remoteCalls, "get_messages_history")
  /\ ExitClient
  /\ \E ok \in BOOLEAN :
       IF ok
       THEN /\ history' = remoteHistory /\ pc' = "sort" /\ UNCHANGED err
       ELSE /\ Raise("get_channel_history", "RemoteError") /\ UNCHANGED history
  /\ UNCHANGED <<env, checkCoro, presented, inputRequests, res,
                 messages, message_number, sender_type, sender_name, out>>

(* ---- main(), lines 184-248 ---- *)

\* faulty variant of SortHistory: the history is truncated to args.limit before the sort
SortHistoryTruncatesFirst ==
  /\ pc = "sort"
  /\ history' = SortedByDate(PySliceTo(history, args.limit))
  /\ messages' = <<>>
  /\ message_number' = 0
  /\ pc' = "normalize"
  /\ UNCHANGED <<env, checkCoro, sess, io, res, sender_type, sender_name, out, err>>

\* lines 185-186
SortHistory ==
  /\ pc = "sort"
  /\ history' = SortedByDate(history)
  /\ messages' = <<>>
  /\ message_number' = 0
  /\ pc' = "normalize"
  /\ UNCHANGED <<env, checkCoro, sess, io, res, sender_type, sender_name, out, err>>

\* the list the loop of line 188 runs over
Truncated(h, limit) == PySliceTo(h, limit)

\* faulty variant of UserName: a User with neither name is named str(None)
UserNameOrPlaceholder(s) ==
  IF Truthy(s.first_name) /\ Truthy(s.last_name)
  THEN s.first_name \o <<" ">> \o s.last_name
  ELSE IF Truthy(s.first_name) THEN s.first_name
  ELSE IF Truthy(s.last_name) THEN s.last_name
  ELSE <<"None">>

\* lines 192-199: the name of a User, None when it has neither name
UserName(s) ==
  IF Truthy(s.first_name) /\ Truthy(s.last_name)
  THEN s.first_name \o <<" ">> \o s.last_name
  ELSE IF Truthy(s.first_name) THEN s.first_name
  ELSE IF Truthy(s.last_name) THEN s.last_name
  ELSE None

\* lines 212-225
FormattedMessage(m, c, st, sn) ==
  [message_id |-> m.id, chat_name |-> c.name, date |-> Strftime(m.date),
   chat_id |-> c.id, sender_type |-> st, sender_name |-> sn]

\* one iteration of the loop of lines 188-235; json.dumps of line 229 cannot
\* fail on the record's fields (integers, strings and None)
NormalizeMessage ==
  /\ pc = "normalize"
  /\ message_number < Len(Truncated(history, args.limit))
  /\ LET message == Truncated(history, args.limit)[message_number + 1]
         s == message.sender
     IN CASE s.kind = "User" /\ UserName(s) = None ->
               \* line 191, then `continue` at line 199
               /\ sender_type' = "user"
               /\ message_number' = message_number + 1
               /\ UNCHANGED <<pc, sender_name, messages, err>>
          [] s.kind = "User" /\ UserName(s) # None ->
               /\ sender_type' = "user"
               /\ sender_name' = UserName(s)
               /\ messages' = Append(messages,
                                FormattedMessage(message, chat, "user", UserName(s)))
               /\ message_number' = message_number + 1
               /\ UNCHANGED <<pc, err>>
          [] s.kind = "Channel" ->
               /\ sender_type' = "channel"
               /\ sender_name' = s.title
               /\ messages' = Append(messages,
                                FormattedMessage(message, chat, "channel", s.title))
               /\ message_number' = message_number + 1
               /\ UNCHANGED <<pc, err>>
          [] OTHER ->
               \* neither branch of lines 190-202 assigns: lines 218-219 read
               \* sender_type and sender_name as an earlier iteration left them,
               \* line 220 reads message.sender.username
               /\ IF sender_type = Unbound \/ sender_name = UnboundName
                  THEN Raise("main", "UnboundLocalError")
                  ELSE Raise("main", "AttributeError")
               /\ UNCHANGED <<sender_type, sender_name, messages, message_number>>
  /\ UNCHANGED <<env, checkCoro, sess, io, res, history, out>>

\* lines 237-240: the loop is over, the list is serialized
DumpMessages ==
  /\ pc = "normalize"
  /\ message_number >= Len(Truncated(history, args.limit))
  /\ pc' = "write"
  /\ UNCHANGED <<env, checkCoro, sess, io, res, loc, out, err>>

\* lines 243-248: the file is written, or open/write raises and exit(1) is called
WriteFile ==
  /\ pc = "write"
  /\ \E ok \in BOOLEAN :
       IF ok
       THEN /\ outFile' = messages /\ writes' = writes + 1
            /\ pc' = "done" /\ UNCHANGED err
       ELSE /\ Raise("main", "SystemExit") /\ UNCHANGED out
  /\ UNCHANGED <<env, checkCoro, sess, io, res, loc>>

Next ==
  \/ CallCheckApiConnection
  \/ ListEnter
  \/ ListCall
  \/ FilterChats
  \/ PreviewEnter
  \/ PreviewCall
  \/ ChooseChat
  \/ PickOnly
  \/ ReturnChat
  \/ FetchEnter
  \/ FetchCall
  \/ SortHistory
  \/ NormalizeMessage
  \/ DumpMessages
  \/ WriteFile

Spec == Init /\ [][Next]_vars

(* ======================================================================= *)
(* Properties                                                              *)
(* ======================================================================= *)

Range(q) == {q[k] : k \in 1..Len(q)}

\* positions in the dialog list of the chats whose name contains the query
Matching == {k \in 1..Len(dialogs) : Contains(args.chat_name, dialogs[k].name)}

\* position in the dialog list of the n-th chat whose name contains the query
NthMatch(n) ==
  CHOOSE k \in Matching : Cardinality({j \in Matching : j <= k}) = n

\* the fetched message a record was made from (the remote numbers the
\* messages of remoteHistory by position)
SourceOf(r) == remoteHistory[r.message_id]

\* order of two strings of digits of the same length, as strings compare
StrLeq(a, b) ==
  \/ a = b
  \/ \E k \in 1..Len(a) : a[k] < b[k] /\ \A j \in 1..(k - 1) : a[j] = b[j]

NamelessUser(m) ==
  m.sender.kind = "User" /\ m.sender.first_name = None /\ m.sender.last_name = None

UnknownSender(m) == m.sender.kind \notin {"User", "Channel"}

\* the phase of the export pipeline a position belongs to
Phase(p) ==
  CASE p \in {"start", "list_enter", "list_call", "filter", "preview_enter",
              "preview_call", "input", "pick_only", "return_chat"} -> "Resolving"
    [] p \in {"fetch_enter", "fetch_call"} -> "Fetching"
    [] p \in {"sort", "normalize"} -> "Normalizing"
    [] p = "write" -> "Writing"
    [] OTHER -> "Done"

PhaseRank(ph) ==
  CASE ph = "Resolving" -> 0 [] ph = "Fetching" -> 1 [] ph = "Normalizing" -> 2
    [] ph = "Writing" -> 3 [] OTHER -> 4

\* the positions at which a remote request is in flight
InCall == pc \in {"list_call", "preview_call", "fetch_call"}

Ended == pc \in {"done", "failed"}

(* ---- C1 ---- *)
\* C1: when no visible chat's name contains the query, find_chat_by_name never
\* returns a chat: the run gets no further than the lookup of line 152, a failure
\* of find_chat_by_name is the IndexError of that lookup on the empty candidate
\* list, no history is fetched and no file is written.
C1_NoMatchFails ==
  Matching = {} =>
    /\ chat = NoChat
    /\ pc \in {"start", "list_enter", "list_call", "filter", "pick_only", "failed"}
    /\ pc = "failed" =>
         /\ failedIn \in {"list_all_chats", "find_chat_by_name"}
         /\ failedIn = "find_chat_by_name" =>
              error = "IndexError" /\ failedAt = "pick_only"
    /\ "get_messages_history" \notin Range(remoteCalls)
    /\ "get_messages_preview" \notin Range(remoteCalls)
    /\ writes = 0

C1_Witness ==
  /\ Matching = {} /\ Len(dialogs) >= 2
  /\ pc = "failed" /\ failedIn = "find_chat_by_name" /\ error = "IndexError"

(* ---- C2 ---- *)
\* C2: with N > 1 chats whose name contains the query and a selection k in 1..N,
\* the candidates were presented in the order of the chat list and
\* find_chat_by_name returns the k-th of them, no other.
C2_ReturnsSelected ==
  (/\ Cardinality(Matching) > 1
   /\ pc = "return_chat"
   /\ choice # <<>>
   /\ choice[1] \in 1..Cardinality(Matching)) =>
    /\ chat = dialogs[NthMatch(choice[1])]
    /\ Len(presented) = Cardinality(Matching)
    /\ \A n \in 1..Len(presented) : presented[n] = dialogs[NthMatch(n)].id
    /\ chat.id = presented[choice[1]]

C2_Witness ==
  /\ Len(dialogs) = 3 /\ Matching = {2, 3}
  /\ pc = "return_chat" /\ choice = <<2>>
  /\ chat = dialogs[3] /\ presented = <<dialogs[2].id, dialogs[3].id>>

(* ---- C3 ---- *)
\* C3: with exactly one chat whose name contains the query, find_chat_by_name
\* returns that chat, input() is never called, no candidate is presented and
\* no preview message is fetched.
C3_SingleMatchNoInput ==
  Cardinality(Matching) = 1 =>
    /\ inputRequests = 0
    /\ presented = <<>>
    /\ "get_messages_preview" \notin Range(remoteCalls)
    /\ pc = "failed" => failedIn # "find_chat_by_name"
    /\ chat # NoChat => chat = dialogs[NthMatch(1)]
    /\ Phase(pc) \in {"Fetching", "Normalizing", "Writing"} \/ pc = "return_chat"
         => chat = dialogs[NthMatch(1)]

C3_Witness ==
  /\ Cardinality(Matching) = 1 /\ Len(dialogs) = 3 /\ Matching = {2}
  /\ pc = "return_chat" /\ chat = dialogs[2]
  /\ inputRequests = 0

(* ---- C4 ---- *)
\* C4: whatever the order of the fetched messages, the records of the written
\* file are in ascending order of their date field: for positions a < b the
\* date string of record a is not later than the date string of record b.
C4_OutputSortedByDate ==
  writes > 0 =>
    \A a, b \in 1..Len(outFile) :
      a < b => StrLeq(outFile[a].date, outFile[b].date)

C4_Witness ==
  /\ writes > 0 /\ Len(outFile) = 3
  /\ remoteHistory[1].date > remoteHistory[2].date
  /\ remoteHistory[3].date < remoteHistory[1].date
  /\ outFile[1].date # outFile[3].date

(* ---- C5 ---- *)
\* C5: a message whose sender is a User with neither first nor last name gets
\* no record (and no record has an empty name); the run never fails at such a
\* message; and a finished run has written a record for every other message
\* of the truncated history.
C5_NamelessUserAbsent ==
  /\ \A k \in 1..Len(messages) :
       ~NamelessUser(SourceOf(messages[k])) /\ messages[k].sender_name # None
  /\ writes > 0 =>
       \A k \in 1..Len(outFile) :
         ~NamelessUser(SourceOf(outFile[k])) /\ outFile[k].sender_name # None
  /\ (pc = "failed" /\ failedAt = "normalize") =>
       ~NamelessUser(Truncated(history, args.limit)[message_number + 1])
  /\ pc = "done" =>
       \A k \in 1..Len(Truncated(history, args.limit)) :
         LET m == Truncated(history, args.limit)[k]
         IN  NamelessUser(m) <=> ~\E n \in 1..Len(outFile) : outFile[n].message_id = m.id

C5_Witness ==
  /\ pc = "done" /\ writes = 1
  /\ Len(history) = 3 /\ args.limit >= 2
  /\ NamelessUser(history[1]) /\ ~NamelessUser(history[2])
  /\ Len(outFile) = 1 /\ outFile[1].message_id = history[2].id

(* ---- C6 ---- *)
\* C6: a message whose sender is neither a User nor a Channel gets no record
\* and does not end the run: normalizing never fails.
C6_UnknownSenderSkipped ==
  /\ \A k \in 1..Len(messages) : ~UnknownSender(SourceOf(messages[k]))
  /\ ~(pc = "failed" /\ failedAt = "normalize")

(* ---- C7 ---- *)
\* C7: with credentials that do not let the client start, the run is ended by
\* check_api_connection at line 175, before find_chat_by_name asks for the
\* chat list.
C7_AuthFailsInCheck ==
  (~credsValid /\ pc = "failed") =>
    failedIn = "check_api_connection" /\ failedAt = "start"

C9_PhaseInv ==
  /\ writes <= 1
  /\ writes = 1 =>
       pc = "done" /\ message_number >= Len(Truncated(history, args.limit))
  /\ (pc = "failed" /\ Phase(failedAt) \in {"Resolving", "Fetching"}) => writes = 0
  /\ ~(pc = "failed" /\ Phase(failedAt) = "Normalizing")

C9_LinearPhases ==
  /\ []C9_PhaseInv
  /\ [][PhaseRank(Phase(pc')) >= PhaseRank(Phase(pc))]_vars

(* ---- C10 ---- *)
\* C10: the written file holds at most args.limit records, no two records come
\* from the same message, and for every record fewer than args.limit fetched
\* messages are dated strictly earlier than the message it comes from.
C10_TruncatedAfterSort ==
  writes > 0 =>
    /\ Len(outFile) <= args.limit
    /\ \A a, b \in 1..Len(outFile) :
         a # b => outFile[a].message_id # outFile[b].message_id
    /\ \A a \in 1..Len(outFile) :
         /\ outFile[a].message_id \in 1..Len(remoteHistory)
         /\ Cardinality({k \in 1..Len(remoteHistory) :
                           remoteHistory[k].date < SourceOf(outFile[a]).date})
              < args.limit

C10_Witness ==
  /\ writes > 0 /\ args.limit = 2 /\ Len(remoteHistory) = 3
  /\ Len(outFile) = 2
  /\ remoteHistory[1].date > remoteHistory[2].date
  /\ remoteHistory[1].date > remoteHistory[3].date
  /\ \A a \in 1..Len(outFile) : outFile[a].message_id # 1

====
